---- MODULE Spec2Model ----
(***************************************************************************)
(* Doctor listing page: one fetch, a URL-serialised query state, a         *)
(* filter/sort engine and an autocomplete engine.  The repository holds    *)
(* two variants of the component:                                          *)
(*   "App"      src/src/App.tsx      (derived views by useMemo, name in    *)
(*                                    the URL, match-ANY specialty)        *)
(*   "part_000" src/unnamed/part_000 (derived views kept in useState,      *)
(*                                    name in local state, match-ALL)      *)
(* Strings are sequences of one-character strings, so that toLowerCase,    *)
(* includes, join, split and the URL encoding are computed, not assumed.   *)
(***************************************************************************)
EXTENDS Integers, Sequences, FiniteSets, TLC

VARIABLES
    variant,      \* which of the two components is mounted
    doctors,      \* useState<Doctor[]>: `doctors` (App) / `data` (part_000)
    fetched,      \* the single axios.get has resolved
    searchParams, \* useSearchParams(): the URLSearchParams of location.search
    query,        \* part_000 only: useState("") name query
    suggestions,  \* App: useMemo value; part_000: useState value
    filtered,     \* App: useMemo value; part_000: useState value
    crashed,      \* a render threw (no error boundary: the tree is unmounted)
    lastOp        \* history: the handler call that produced this state

vars == <<variant, doctors, fetched, searchParams, query, suggestions, filtered, crashed, lastOp>>

(***************************************************************************)
(* Bounds of the model.                                                    *)
(***************************************************************************)
\* how many of the specialty checkboxes the modelled user can reach
NumSpecialties == 2
\* longest doctor list handed to the engines in EngineSpec
MaxDoctors == 4

(***************************************************************************)
(* Strings.                                                                *)
(***************************************************************************)
UpperChars == <<"A","B","C","D","E","F","G","H","I","J","K","L","M",
                "N","O","P","Q","R","S","T","U","V","W","X","Y","Z">>
LowerChars == <<"a","b","c","d","e","f","g","h","i","j","k","l","m",
                "n","o","p","q","r","s","t","u","v","w","x","y","z">>

LowerTable ==
    [c \in {UpperChars[i] : i \in 1..Len(UpperChars)} |->
        LowerChars[CHOOSE i \in 1..Len(UpperChars) : UpperChars[i] = c]]

LowerChar(c) == IF c \in DOMAIN LowerTable THEN LowerTable[c] ELSE c

\* String.prototype.toLowerCase
ToLowerCase(s) == [i \in 1..Len(s) |-> LowerChar(s[i])]

\* String.prototype.includes
Includes(s, sub) ==
    \E i \in 0..(Len(s) - Len(sub)) : SubSeq(s, i + 1, i + Len(sub)) = sub

\* position of the first c in s, 0 when there is none
IndexOf(s, c) ==
    LET at == {i \in 1..Len(s) : s[i] = c} IN
    IF at = {} THEN 0 ELSE CHOOSE i \in at : \A j \in at : i <= j

RECURSIVE Split(_, _)
\* String.prototype.split(c): "" gives [""], "a," gives ["a", ""]
Split(s, c) ==
    LET i == IndexOf(s, c) IN
    IF i = 0 THEN <<s>>
    ELSE <<SubSeq(s, 1, i - 1)>> \o Split(SubSeq(s, i + 1, Len(s)), c)

RECURSIVE JoinNoDelimiter(_, _)
JoinNoDelimiter(list, sep) ==
    IF list = <<>> THEN <<>>
    ELSE Head(list) \o JoinNoDelimiter(Tail(list), sep)

RECURSIVE Join(_, _)
\* Array.prototype.join(sep)
Join(list, sep) ==
    IF list = <<>> THEN <<>>
    ELSE IF Len(list) = 1 THEN list[1]
    ELSE list[1] \o sep \o Join(Tail(list), sep)

\* Array.prototype.includes
ArrayIncludes(list, x) == \E i \in 1..Len(list) : list[i] = x

(***************************************************************************)
(* URLSearchParams and location.search (application/x-www-form-urlencoded).*)
(***************************************************************************)
KeyName      == <<"n","a","m","e">>
KeyMoc       == <<"m","o","c">>
KeySpecialty == <<"s","p","e","c","i","a","l","t","y">>
KeySort      == <<"s","o","r","t">>
Keys == {KeyName, KeyMoc, KeySpecialty, KeySort}

EncodeChar(c) ==
    CASE c = " " -> <<"+">>
      [] c = "," -> <<"%","2","C">>
      [] c = "/" -> <<"%","2","F">>
      [] c = "&" -> <<"%","2","6">>
      [] c = "=" -> <<"%","3","D">>
      [] c = "+" -> <<"%","2","B">>
      [] c = "%" -> <<"%","2","5">>
      [] OTHER   -> <<c>>

RECURSIVE Encode(_)
Encode(s) == IF s = <<>> THEN <<>> ELSE EncodeChar(Head(s)) \o Encode(Tail(s))

HexChar(a, b) ==
    CASE <<a, b>> = <<"2","C">> -> ","
      [] <<a, b>> = <<"2","F">> -> "/"
      [] <<a, b>> = <<"2","6">> -> "&"
      [] <<a, b>> = <<"3","D">> -> "="
      [] <<a, b>> = <<"2","B">> -> "+"
      [] <<a, b>> = <<"2","5">> -> "%"
      [] OTHER -> "?"

RECURSIVE Decode(_)
Decode(s) ==
    IF s = <<>> THEN <<>>
    ELSE IF Head(s) = "+" THEN <<" ">> \o Decode(Tail(s))
    ELSE IF Head(s) = "%" /\ Len(s) >= 3
         THEN <<HexChar(s[2], s[3])>> \o Decode(SubSeq(s, 4, Len(s)))
    ELSE <<Head(s)>> \o Decode(Tail(s))

\* URLSearchParams.prototype.toString, prefixed with "?" by the navigation
ToSearch(params) ==
    IF params = <<>> THEN <<>>
    ELSE <<"?">> \o
         Join([i \in 1..Len(params) |->
                  Encode(params[i].key) \o <<"=">> \o Encode(params[i].value)],
              <<"&">>)

ParsePair(part) ==
    LET i == IndexOf(part, "=") IN
    IF i = 0 THEN [key |-> Decode(part), value |-> <<>>]
    ELSE [key   |-> Decode(SubSeq(part, 1, i - 1)),
          value |-> Decode(SubSeq(part, i + 1, Len(part)))]

\* new URLSearchParams(location.search): the ordered list of (key, value)
URLSearchParams(s) ==
    LET body  == IF s # <<>> /\ Head(s) = "?" THEN Tail(s) ELSE s
        parts == SelectSeq(Split(body, "&"), LAMBDA p : p # <<>>)
    IN  [i \in 1..Len(parts) |-> ParsePair(parts[i])]

Has(params, key) == \E i \in 1..Len(params) : params[i].key = key

\* searchParams.get(key) || ""
Get(params, key) ==
    IF Has(params, key)
    THEN params[CHOOSE i \in 1..Len(params) :
                   params[i].key = key /\ \A j \in 1..(i - 1) : params[j].key # key].value
    ELSE <<>>

\* URLSearchParams.prototype.delete
Delete(params, key) == SelectSeq(params, LAMBDA p : p.key # key)

\* URLSearchParams.prototype.set: replace the first entry, drop the others
Set(params, key, value) ==
    IF Has(params, key)
    THEN LET first == CHOOSE i \in 1..Len(params) :
                         params[i].key = key /\ \A j \in 1..(i - 1) : params[j].key # key
         IN  SubSeq(params, 1, first - 1) \o <<[key |-> key, value |-> value]>>
             \o Delete(SubSeq(params, first + 1, Len(params)), key)
    ELSE Append(params, [key |-> key, value |-> value])

(***************************************************************************)
(* Query reads (App.tsx 32-35, part_000 31-33).                            *)
(***************************************************************************)
Comma == ","

\* searchParams.get("name") || ""
NameQuery(params) == Get(params, KeyName)

\* searchParams.get("moc") || ""
Moc(params) == Get(params, KeyMoc)

\* searchParams.get("specialty")?.split(",") || []
Specs(params) ==
    IF Has(params, KeySpecialty) THEN Split(Get(params, KeySpecialty), Comma) ELSE <<>>

\* searchParams.get("sort") || ""
Sort(params) == Get(params, KeySort)

(***************************************************************************)
(* updateParam (App.tsx 76-84, part_000 57-65).                            *)
(***************************************************************************)
\* a slip: the new URLSearchParams is not seeded with the current ones
UpdateParamFresh(current, key, isArray, value) ==
    IF value = <<>>
    THEN <<>>
    ELSE <<[key |-> key, value |-> IF isArray THEN Join(value, <<Comma>>) ELSE value]>>

\* a slip: an empty value is stored instead of removing the key
UpdateParamKeepsEmpty(current, key, isArray, value) ==
    Set(current, key, IF isArray THEN Join(value, <<Comma>>) ELSE value)

\* the params handed to setSearchParams.  The navigation serialises them
\* into location.search (ToSearch) and the next render parses that string
\* (URLSearchParams); the state keeps the params, LocationSearch and Decoded
\* below are the string and its parse, and C4 checks that the parse gives
\* back what was written.
UpdateParam(current, key, isArray, value) ==
    LET params == current IN   \* new URLSearchParams(searchParams): a copy
    IF value = <<>>   \* !value, or an array of length 0
    THEN Delete(params, key)
    ELSE Set(params, key, IF isArray THEN Join(value, <<Comma>>) ELSE value)

(***************************************************************************)
(* Doctor records and the values the model draws from.                     *)
(***************************************************************************)
VideoConsult == <<"V","i","d","e","o"," ","C","o","n","s","u","l","t">>
InClinic     == <<"I","n"," ","C","l","i","n","i","c">>
Modes == <<VideoConsult, InClinic>>

Dentist  == <<"D","e","n","t","i","s","t">>
ENT      == <<"E","N","T">>
Ayurveda == <<"A","y","u","r","v","e","d","a">>
\* a sub-list of the 24 terms, in the source's order
SPECIALTIES == <<Dentist, ENT, Ayurveda>>
Offered == SubSeq(SPECIALTIES, 1, IF NumSpecialties < Len(SPECIALTIES)
                                   THEN NumSpecialties ELSE Len(SPECIALTIES))

SortFees       == <<"f","e","e","s">>
SortExperience == <<"e","x","p","e","r","i","e","n","c","e">>

Array(items) == [kind |-> "array", items |-> items]
Undefined    == [kind |-> "undefined", items |-> <<>>]
\* Array.isArray
IsArray(x) == x.kind = "array"

Alice  == [name |-> <<"A","l","i","c","e">>, mode |-> VideoConsult,
           speciality |-> Array(<<ENT>>), experience |-> 2, fees |-> 500]
Bob    == [name |-> <<"B","o","b">>, mode |-> <<"v","i","d","e","o"," ","c","o","n","s","u","l","t">>,
           speciality |-> Array(<<Dentist, ENT>>), experience |-> 9, fees |-> 100]
Amanda == [name |-> <<"A","m","a","n","d","a">>, mode |-> InClinic,
           speciality |-> Array(<<Dentist>>), experience |-> 2, fees |-> 100]
\* a record of the payload without a `speciality` list
Carl   == [name |-> <<"C","a","r","l">>, mode |-> InClinic,
           speciality |-> Undefined, experience |-> 5, fees |-> 500]

Pool == {Alice, Bob, Amanda, Carl}

\* what the input box can deliver as e.target.value
NameInputs == {<<>>, <<"a">>, <<"A","&">>}

\* the payloads the endpoint can answer with
Payloads == {<<Alice, Bob, Amanda>>, <<Alice, Carl>>}

(***************************************************************************)
(* Autocomplete engine.                                                    *)
(***************************************************************************)
MaxSuggestions == 3

\* Array.prototype.slice(0, n)
Slice(list, n) == SubSeq(list, 1, IF Len(list) < n THEN Len(list) ELSE n)

\* a slip: the matches are not truncated
SuggestionsAll(list, nameQuery) ==
    IF nameQuery = <<>> THEN <<>>
    ELSE SelectSeq(list, LAMBDA d :
             Includes(ToLowerCase(d.name), ToLowerCase(nameQuery)))

\* App.tsx: the `suggestions` useMemo callback
SuggestionsMemo(list, nameQuery) ==
    IF nameQuery = <<>> THEN <<>>
    ELSE Slice(SelectSeq(list, LAMBDA d :
                   Includes(ToLowerCase(d.name), ToLowerCase(nameQuery))),
               MaxSuggestions)

\* part_000: what handleSearch passes to setSuggestions
HandleSearchMatch(data, value) ==
    IF value = <<>> THEN <<>>
    ELSE Slice(SelectSeq(data, LAMBDA d :
                   Includes(ToLowerCase(d.name), ToLowerCase(value))),
               MaxSuggestions)

(***************************************************************************)
(* Filter/sort engine.                                                     *)
(***************************************************************************)
\* a slip: the fee comparator with its operands swapped
CompareSwapped(a, b, sort) ==
    IF sort = SortFees THEN b.fees - a.fees ELSE b.experience - a.experience

\* the comparators (a, b) => a.fees - b.fees and (a, b) => b.experience - a.experience
Compare(a, b, sort) ==
    IF sort = SortFees THEN a.fees - b.fees ELSE b.experience - a.experience

RECURSIVE InsertSorted(_, _, _)
\* x goes before the first element that must come after it
InsertSorted(sorted, x, sort) ==
    IF sorted = <<>> THEN <<x>>
    ELSE IF Compare(Head(sorted), x, sort) > 0 THEN <<x>> \o sorted
    ELSE <<Head(sorted)>> \o InsertSorted(Tail(sorted), x, sort)

RECURSIVE SortFrom(_, _, _)
SortFrom(sorted, rest, sort) ==
    IF rest = <<>> THEN sorted
    ELSE SortFrom(InsertSorted(sorted, Head(rest), sort), Tail(rest), sort)

\* Array.prototype.sort(comparator): stable (ES2019)
ArraySort(list, sort) == SortFrom(<<>>, list, sort)

\* a slip: `every` where App.tsx has `some`
SomeSelectedAll(d, specs) ==
    \A i \in 1..Len(specs) : ArrayIncludes(d.speciality.items, specs[i])

\* App.tsx 64: d.speciality.some((s) => specs.includes(s)), for a list
SomeSelected(d, specs) ==
    \E i \in 1..Len(d.speciality.items) : ArrayIncludes(specs, d.speciality.items[i])

\* part_000 43: Array.isArray(d.speciality) && specs.every((s) => d.speciality.includes(s))
EverySelected(d, specs) ==
    /\ IsArray(d.speciality)
    /\ \A i \in 1..Len(specs) : ArrayIncludes(d.speciality.items, specs[i])

\* App.tsx: the `filtered` useMemo callback.  threw: a TypeError left the
\* callback; data: the input array after the call.
FilteredMemo(list, nameQuery, moc, specs, sort) ==
    LET byName == IF nameQuery # <<>>
                  THEN SelectSeq(list, LAMBDA d :
                           Includes(ToLowerCase(d.name), ToLowerCase(nameQuery)))
                  ELSE list
        byMode == IF moc # <<>>
                  THEN SelectSeq(byName, LAMBDA d : ToLowerCase(d.mode) = ToLowerCase(moc))
                  ELSE byName
        \* .some is called on each remaining record's speciality
        throws == /\ Len(specs) > 0
                  /\ \E i \in 1..Len(byMode) : ~IsArray(byMode[i].speciality)
        bySpec == IF Len(specs) > 0
                  THEN SelectSeq(byMode, LAMBDA d : SomeSelected(d, specs))
                  ELSE byMode
        result == IF sort = SortFees \/ sort = SortExperience
                  THEN ArraySort(bySpec, sort)   \* [...result].sort: a copy is sorted
                  ELSE bySpec
    IN  IF throws THEN [threw |-> TRUE, list |-> <<>>, data |-> list]
        ELSE [threw |-> FALSE, list |-> result, data |-> list]

\* part_000: the filter effect, what it passes to setFiltered
FilterEffect(data, q, moc, specs, sort) ==
    LET byName == IF q # <<>>
                  THEN SelectSeq(data, LAMBDA d :
                           Includes(ToLowerCase(d.name), ToLowerCase(q)))
                  ELSE data                      \* [...data]: a copy
        byMode == IF moc # <<>>
                  THEN SelectSeq(byName, LAMBDA d : d.mode = moc)
                  ELSE byName
        bySpec == IF Len(specs) > 0
                  THEN SelectSeq(byMode, LAMBDA d : EverySelected(d, specs))
                  ELSE byMode
        byFees == IF sort = SortFees THEN ArraySort(bySpec, SortFees) ELSE bySpec
        result == IF sort = SortExperience THEN ArraySort(byFees, SortExperience) ELSE byFees
    IN  [threw |-> FALSE, list |-> result, data |-> data]

\* App.tsx 211: doc.speciality.join(", ") on every card
RenderThrows(cards) == \E i \in 1..Len(cards) : ~IsArray(cards[i].speciality)

(***************************************************************************)
(* The component as a state machine.                                       *)
(***************************************************************************)
Variants == {"App", "part_000"}

Op(op, key, isArray, value, input) ==
    [op |-> op, key |-> key, isArray |-> isArray, value |-> value, input |-> input]

\* App.tsx: the render after a state change; each useMemo recomputes when
\* one of its dependencies changed
CommitApp(newDoctors, newParams) ==
    LET nameChanged == NameQuery(newParams) # NameQuery(searchParams)
        listChanged == newDoctors # doctors
        restChanged == \/ Moc(newParams) # Moc(searchParams)
                       \/ Specs(newParams) # Specs(searchParams)
                       \/ Sort(newParams) # Sort(searchParams)
    IN  \E f \in {IF nameChanged \/ listChanged \/ restChanged
                  THEN FilteredMemo(newDoctors, NameQuery(newParams), Moc(newParams),
                                    Specs(newParams), Sort(newParams))
                  ELSE [threw |-> FALSE, list |-> filtered, data |-> newDoctors]} :
        /\ searchParams' = newParams
        /\ doctors' = f.data
        /\ UNCHANGED query
        /\ IF f.threw
           THEN crashed' = TRUE /\ UNCHANGED <<suggestions, filtered>>
           ELSE /\ suggestions' = IF nameChanged \/ listChanged
                                  THEN SuggestionsMemo(newDoctors, NameQuery(newParams))
                                  ELSE suggestions
                /\ filtered' = f.list
                /\ crashed' = RenderThrows(f.list)

\* part_000: the render after a state change, then the filter effect.  `specs`
\* is a new array on every render, so the effect runs after each of them and
\* stores the same list again; the repeated runs change no value.
CommitEffect(newData, newQuery, newParams, newSuggestions) ==
    \E f \in {FilterEffect(newData, newQuery, Moc(newParams), Specs(newParams),
                           Sort(newParams))} :
        /\ searchParams' = newParams
        /\ doctors' = f.data
        /\ query' = newQuery
        /\ suggestions' = newSuggestions
        /\ filtered' = f.list
        /\ crashed' = FALSE   \* line 164 guards the join with Array.isArray

\* a handler of either variant calls updateParam(key, value)
CallUpdateParam(key, isArray, value) ==
    /\ \E newParams \in {UpdateParam(searchParams, key, isArray, value)} :
          IF variant = "App"
          THEN CommitApp(doctors, newParams)
          ELSE CommitEffect(doctors, query, newParams, suggestions)
    /\ lastOp' = Op("updateParam", key, isArray, value, <<>>)
    /\ UNCHANGED <<variant, fetched>>

Init ==
    /\ variant \in Variants
    /\ doctors = <<>>
    /\ fetched = FALSE
    /\ searchParams = <<>>
    /\ query = <<>>
    /\ suggestions = <<>>
    /\ filtered = <<>>
    /\ crashed = FALSE
    /\ lastOp = Op("init", <<>>, FALSE, <<>>, <<>>)

\* axios.get(API_URL).then((res) => setDoctors(res.data))
FetchResolve ==
    /\ ~crashed /\ ~fetched
    /\ \E payload \in Payloads :
          IF variant = "App"
          THEN CommitApp(payload, searchParams)
          ELSE CommitEffect(payload, query, searchParams, suggestions)
    /\ fetched' = TRUE
    /\ lastOp' = Op("fetch", <<>>, FALSE, <<>>, <<>>)
    /\ UNCHANGED variant

\* App.tsx 96: onChange={(e) => updateParam("name", e.target.value)}
OnChangeName ==
    /\ ~crashed /\ variant = "App"
    /\ \E value \in NameInputs : CallUpdateParam(KeyName, FALSE, value)

\* App.tsx 105: onClick={() => updateParam("name", s.name)}
ClickSuggestionApp ==
    /\ ~crashed /\ variant = "App"
    /\ \E i \in 1..Len(suggestions) : CallUpdateParam(KeyName, FALSE, suggestions[i].name)

\* part_000 49-55
HandleSearch ==
    /\ ~crashed /\ variant = "part_000"
    /\ \E value \in NameInputs :
          /\ CommitEffect(doctors, value, searchParams, HandleSearchMatch(doctors, value))
          /\ lastOp' = Op("handleSearch", <<>>, FALSE, <<>>, <<>>)
    /\ UNCHANGED <<variant, fetched>>

\* part_000 86: onClick={() => setQuery(s.name)}
ClickSuggestionEffect ==
    /\ ~crashed /\ variant = "part_000"
    /\ \E i \in 1..Len(suggestions) :
          /\ CommitEffect(doctors, suggestions[i].name, searchParams, suggestions)
          /\ lastOp' = Op("setQuery", <<>>, FALSE, <<>>, <<>>)
    /\ UNCHANGED <<variant, fetched>>

\* part_000 77: onKeyDown={(e) => e.key === "Enter" && setQuery(query)}
PressEnter ==
    /\ ~crashed /\ variant = "part_000"
    /\ CommitEffect(doctors, query, searchParams, suggestions)
    /\ lastOp' = Op("setQuery", <<>>, FALSE, <<>>, <<>>)
    /\ UNCHANGED <<variant, fetched>>

\* the mode radios: onChange={() => updateParam("moc", label)}
ChooseMode ==
    /\ ~crashed
    /\ \E i \in 1..Len(Modes) : CallUpdateParam(KeyMoc, FALSE, Modes[i])

\* the specialty checkboxes
ToggleSpecialty ==
    /\ ~crashed
    /\ \E i \in 1..Len(Offered) :
          LET spec  == Offered[i]
              specs == Specs(searchParams)
              next  == IF ArrayIncludes(specs, spec)
                       THEN SelectSeq(specs, LAMBDA x : x # spec)
                       ELSE Append(specs, spec)
          IN  CallUpdateParam(KeySpecialty, TRUE, next)

\* the sort radios: onChange={() => updateParam("sort", "fees" | "experience")}
ChooseSort ==
    /\ ~crashed
    /\ \E value \in {SortFees, SortExperience} : CallUpdateParam(KeySort, FALSE, value)

Next ==
    \/ FetchResolve
    \/ OnChangeName
    \/ ClickSuggestionApp
    \/ HandleSearch
    \/ ClickSuggestionEffect
    \/ PressEnter
    \/ ChooseMode
    \/ ToggleSpecialty
    \/ ChooseSort

Spec == Init /\ [][Next]_vars

(***************************************************************************)
(* The two engines on their own: a doctor list is drawn, then one engine   *)
(* is applied to it under a drawn query state.                             *)
(***************************************************************************)
DoctorLists == UNION {[1..n -> Pool] : n \in 0..MaxDoctors}

EngineNames == {<<>>, <<"A">>}
EngineModes == {<<>>, VideoConsult, InClinic}
EngineSpecs == {<<>>, <<ENT>>, <<Dentist, ENT>>}
EngineSorts == {<<>>, SortFees, SortExperience}

\* the searchParams reached by updating the four keys in turn
MakeSearch(name, moc, specs, sort) ==
    UpdateParam(UpdateParam(UpdateParam(UpdateParam(<<>>,
        KeyName, FALSE, name), KeyMoc, FALSE, moc), KeySpecialty, TRUE, specs),
        KeySort, FALSE, sort)

EngineQueries ==
    {MakeSearch(name, moc, specs, sort) :
        name \in EngineNames, moc \in EngineModes,
        specs \in EngineSpecs, sort \in EngineSorts}

EngineInit ==
    /\ variant \in Variants
    /\ doctors \in DoctorLists
    /\ fetched = TRUE
    /\ searchParams = <<>>
    /\ query = <<>>
    /\ suggestions = <<>>
    /\ filtered = <<>>
    /\ crashed = FALSE
    /\ lastOp = Op("input", <<>>, FALSE, <<>>, <<>>)

\* the filter/sort engine of the mounted variant, on the drawn list
ApplyFiltered ==
    /\ lastOp.op = "input"
    /\ \E newParams \in EngineQueries, name \in EngineNames :
          /\ variant = "App" => name = <<>>          \* App reads the name from the URL
          /\ variant = "part_000" => ~Has(newParams, KeyName)
          /\ \E f \in {IF variant = "App"
                       THEN FilteredMemo(doctors, NameQuery(newParams), Moc(newParams),
                                         Specs(newParams), Sort(newParams))
                       ELSE FilterEffect(doctors, name, Moc(newParams),
                                         Specs(newParams), Sort(newParams))} :
                /\ searchParams' = newParams
                /\ query' = name
                /\ filtered' = f.list
                /\ crashed' = f.threw
                /\ doctors' = f.data
    /\ lastOp' = Op("filtered", <<>>, FALSE, <<>>, doctors)
    /\ UNCHANGED <<variant, fetched, suggestions>>

\* the autocomplete engine of the mounted variant, on the drawn list
ApplySuggestions ==
    /\ lastOp.op = "input"
    /\ \E name \in EngineNames :
          IF variant = "App"
          THEN /\ searchParams' = MakeSearch(name, <<>>, <<>>, <<>>)
               /\ suggestions' = SuggestionsMemo(doctors, NameQuery(searchParams'))
               /\ UNCHANGED query
          ELSE /\ query' = name
               /\ suggestions' = HandleSearchMatch(doctors, name)
               /\ UNCHANGED searchParams
    /\ lastOp' = Op("suggestions", <<>>, FALSE, <<>>, doctors)
    /\ UNCHANGED <<variant, fetched, doctors, filtered, crashed>>

EngineNext == ApplyFiltered \/ ApplySuggestions

EngineSpec == EngineInit /\ [][EngineNext]_vars

(***************************************************************************)
(* Properties.                                                             *)
(***************************************************************************)
Range(list) == {list[i] : i \in 1..Len(list)}
Count(list, x) == Cardinality({i \in 1..Len(list) : list[i] = x})
SameBag(a, b) ==
    /\ Len(a) = Len(b)
    /\ \A x \in Range(a) \cup Range(b) : Count(a, x) = Count(b, x)

\* q occurs in s, letter case ignored
ContainsIgnoreCase(s, q) ==
    \E off \in 0..(Len(s) - Len(q)) :
        \A k \in 1..Len(q) : LowerChar(s[off + k]) = LowerChar(q[k])

EqualsIgnoreCase(s, t) ==
    Len(s) = Len(t) /\ \A k \in 1..Len(s) : LowerChar(s[k]) = LowerChar(t[k])

\* the URL query string of the current state, and what a reader decodes from it
LocationSearch == ToSearch(searchParams)
Decoded == URLSearchParams(LocationSearch)

\* the filter values the mounted variant's engine is run with
AppliedName  == IF variant = "App" THEN NameQuery(searchParams) ELSE query
AppliedMoc   == Moc(searchParams)
AppliedSpecs == Specs(searchParams)
AppliedSort  == Sort(searchParams)

\* the two engines of the mounted variant, on the current state
Autocomplete ==
    IF variant = "App"
    THEN SuggestionsMemo(doctors, AppliedName)
    ELSE HandleSearchMatch(doctors, AppliedName)
FilterWithSort(sort) ==
    IF variant = "App"
    THEN FilteredMemo(doctors, AppliedName, AppliedMoc, AppliedSpecs, sort)
    ELSE FilterEffect(doctors, AppliedName, AppliedMoc, AppliedSpecs, sort)

\* C1: in every state reached by UI actions and the fetch, each filter value
\* the engine applies (name, mode, specialty list, sort) equals the value
\* decoded from the URL query string, and no query key has an empty value.
C1_UrlEncodesFilterState ==
    /\ AppliedName = Get(Decoded, KeyName)
    /\ AppliedMoc = Get(Decoded, KeyMoc)
    /\ AppliedSpecs = Specs(Decoded)
    /\ AppliedSort = Get(Decoded, KeySort)
    /\ \A i \in 1..Len(Decoded) : Decoded[i].value # <<>>

\* C2: in every state the displayed suggestion list is the autocomplete of the
\* current doctor list and name query, and the displayed result list is the
\* filter of the current doctor list and query state.
C2_DerivedViewsCurrent ==
    ~crashed =>
        /\ suggestions = Autocomplete
        /\ filtered = FilterWithSort(AppliedSort).list

\* C3: a step that calls updateParam(key, value) leaves the entry of every
\* other query key as it was, whether it sets or removes `key`.
C3_UpdateParamFrame ==
    [][lastOp'.op = "updateParam" =>
          \A k \in Keys \ {lastOp'.key} :
              /\ Has(searchParams', k) = Has(searchParams, k)
              /\ Get(searchParams', k) = Get(searchParams, k)]_vars

C3_Witness ==
    /\ lastOp.op = "updateParam"
    /\ lastOp.key = KeySpecialty
    /\ lastOp.value = <<>>
    /\ Get(searchParams, KeyMoc) = InClinic
    /\ Get(searchParams, KeySort) = SortExperience

\* C4: after updateParam(key, value) the value read back from the URL is the
\* one written: nothing (the key is gone) for "" or an empty list, v for a
\* non-empty string v, and the same specialty list for a non-empty list.
C4_WriteReadRoundTrip ==
    lastOp.op = "updateParam" =>
        IF lastOp.value = <<>>
        THEN ~Has(Decoded, lastOp.key) /\ Get(Decoded, lastOp.key) = <<>>
        ELSE /\ Decoded = searchParams
             /\ IF lastOp.isArray
                THEN Specs(Decoded) = lastOp.value
                ELSE Get(Decoded, lastOp.key) = lastOp.value

C4_Witness ==
    /\ lastOp.op = "updateParam"
    /\ lastOp.isArray
    /\ Len(lastOp.value) = 2
    /\ Specs(Decoded) = lastOp.value
    /\ Has(Decoded, KeyMoc)

\* the criteria of the filter/sort contract
NameCriterion(d, name) == name = <<>> \/ ContainsIgnoreCase(d.name, name)
ModeCriterion(d, moc) == moc = <<>> \/ EqualsIgnoreCase(d.mode, moc)
SpecialtyCriterion(d, specs) ==
    \/ specs = <<>>
    \/ /\ IsArray(d.speciality)
       /\ IF variant = "App"
          THEN Range(d.speciality.items) \cap Range(specs) # {}
          ELSE Range(specs) \subseteq Range(d.speciality.items)
Satisfying(list) ==
    SelectSeq(list, LAMBDA d : /\ NameCriterion(d, AppliedName)
                               /\ ModeCriterion(d, AppliedMoc)
                               /\ SpecialtyCriterion(d, AppliedSpecs))

\* C5: the filter returns exactly the records of the list that satisfy every
\* active criterion, leaves the list as it was, and without a sort key
\* returns them in the list's order.
C5_FilterExactlyMatching ==
    lastOp.op = "filtered" =>
        /\ ~crashed
        /\ doctors = lastOp.input
        /\ SameBag(filtered, Satisfying(lastOp.input))
        /\ AppliedSort = <<>> => filtered = Satisfying(lastOp.input)

NonDecreasingFees(list) ==
    \A i, j \in 1..Len(list) : i < j => list[i].fees <= list[j].fees
NonIncreasingExperience(list) ==
    \A i, j \in 1..Len(list) : i < j => list[i].experience >= list[j].experience
SortKey(d, sort) == IF sort = SortFees THEN d.fees ELSE d.experience
\* records with equal keys are in the same relative order in both lists
SameOrderPerKey(a, b, sort) ==
    \A x \in Range(a) \cup Range(b) :
        SelectSeq(a, LAMBDA d : SortKey(d, sort) = SortKey(x, sort))
            = SelectSeq(b, LAMBDA d : SortKey(d, sort) = SortKey(x, sort))

\* C6: with a sort key the result is a permutation of the filtered list,
\* non-decreasing in fees (sort=fees) or non-increasing in experience
\* (sort=experience), records with equal keys keeping their relative order.
C6_SortAfterFilterStable ==
    (lastOp.op = "filtered" /\ ~crashed /\ AppliedSort # <<>>) =>
        LET unsorted == FilterWithSort(<<>>).list IN
        /\ SameBag(filtered, unsorted)
        /\ AppliedSort = SortFees => NonDecreasingFees(filtered)
        /\ AppliedSort = SortExperience => NonIncreasingExperience(filtered)
        /\ SameOrderPerKey(filtered, unsorted, AppliedSort)

C6_Witness ==
    /\ lastOp.op = "filtered" /\ ~crashed
    /\ AppliedSort = SortFees
    /\ filtered # FilterWithSort(<<>>).list
    /\ \E i, j \in 1..Len(filtered) :
          i < j /\ filtered[i] # filtered[j] /\ filtered[i].fees = filtered[j].fees

\* the positions of the list whose name contains the query, case ignored
Matching(list, name) == {i \in 1..Len(list) : ContainsIgnoreCase(list[i].name, name)}
Min(a, b) == IF a < b THEN a ELSE b

\* C7: the suggestions are the first min(3, matches) records of the list, in
\* list order, whose name contains the query ignoring case; never more than
\* 3, never a non-matching record, and none for an empty query.
C7_AutocompleteFirstThree ==
    lastOp.op = "suggestions" =>
        LET M == Matching(lastOp.input, AppliedName) IN
        /\ AppliedName = <<>> => suggestions = <<>>
        /\ Len(suggestions) <= 3
        /\ AppliedName # <<>> =>
              /\ Len(suggestions) = Min(3, Cardinality(M))
              /\ \A k \in 1..Len(suggestions) :
                    \E i \in M : /\ Cardinality({j \in M : j < i}) = k - 1
                                 /\ suggestions[k] = lastOp.input[i]

C7_Witness ==
    /\ lastOp.op = "suggestions"
    /\ Cardinality(Matching(lastOp.input, AppliedName)) = 4
    /\ AppliedName # <<>>
    /\ Len(suggestions) = 3
    /\ lastOp.input[4] \notin Range(suggestions)

\* C8: a record whose `speciality` is absent or not a list never raises an
\* error: no reachable state is a crash, and under an active specialty filter
\* such a record is not in the result.
C8_MalformedNeverCrashes ==
    /\ ~crashed
    /\ AppliedSpecs # <<>> => \A i \in 1..Len(filtered) : IsArray(filtered[i].speciality)

\* C9: with only the selection {"Dentist","ENT"} active, a doctor whose
\* speciality is ["ENT"] alone is in the result of App.tsx (match any) and not
\* in the result of part_000 (match all).
C9_AnyVersusAll ==
    (/\ lastOp.op = "filtered" /\ ~crashed
     /\ AppliedSpecs = <<Dentist, ENT>>
     /\ AppliedName = <<>> /\ AppliedMoc = <<>>) =>
        \A d \in Range(lastOp.input) :
            d.speciality = Array(<<ENT>>) =>
                /\ variant = "App" => d \in Range(filtered)
                /\ variant = "part_000" => d \notin Range(filtered)

C9_Witness ==
    /\ lastOp.op = "filtered" /\ ~crashed
    /\ variant = "App"
    /\ AppliedSpecs = <<Dentist, ENT>>
    /\ AppliedName = <<>> /\ AppliedMoc = <<>>
    /\ Alice \in Range(lastOp.input)
    /\ Alice \in Range(filtered)
    /\ Amanda \in Range(filtered)

\* C10: with only a mode selected, a record is in the result iff its mode
\* equals the selected mode ignoring letter case; with no mode selected the
\* mode filter excludes no record.
C10_ModeIgnoresCase ==
    (lastOp.op = "filtered" /\ ~crashed /\ AppliedName = <<>> /\ AppliedSpecs = <<>>) =>
        Range(filtered) =
            {d \in Range(lastOp.input) :
                AppliedMoc = <<>> \/ EqualsIgnoreCase(d.mode, AppliedMoc)}

====
